---- MODULE Spec2Model ----
(***************************************************************************)
(* Model of index.ipynb: a notebook kernel that executes the code cells of *)
(* the notebook one after another against one Spark session, a DataFrame   *)
(* built from three literal rows, a DataFrame read from forestfires.csv    *)
(* and a pandas DataFrame built from the same three literal rows.          *)
(*                                                                         *)
(* Text is modelled as a tuple of one-character strings so that sorting    *)
(* of keys and substring tests are computed, not assumed.  Python values   *)
(* carry their type: [t |-> "int" | "str" | "bool" | "double" | "null"].   *)
(* Doubles are exact rationals <<numerator, denominator>> in lowest terms. *)
(***************************************************************************)
EXTENDS Integers, Sequences, FiniteSets, TLC

\* Largest number of data rows of forestfires.csv explored.
MaxRows == 2

----------------------------------------------------------------------------
\* Text

\* Code-point order of the characters used by the notebook's identifiers.
Alphabet ==
  << "(", ")",
     "A", "B", "C", "D", "E", "F", "G", "H", "I", "J", "K", "L", "M",
     "N", "O", "P", "Q", "R", "S", "T", "U", "V", "W", "X", "Y", "Z",
     "a", "b", "c", "d", "e", "f", "g", "h", "i", "j", "k", "l", "m",
     "n", "o", "p", "q", "r", "s", "t", "u", "v", "w", "x", "y", "z" >>

Ord(ch) == CHOOSE i \in 1..Len(Alphabet) : Alphabet[i] = ch

\* Python's str comparison: lexicographic by code point, a proper prefix first.
StrLess(a, b) ==
  \E k \in 1..(Len(b)) :
     /\ \A j \in 1..(k - 1) : j <= Len(a) /\ a[j] = b[j]
     /\ \/ k = Len(a) + 1
        \/ k <= Len(a) /\ Ord(a[k]) < Ord(b[k])

\* True iff sub occurs in s as a contiguous substring.
Contains(s, sub) ==
  \E i \in 0..(Len(s) - Len(sub)) :
     \A j \in 1..Len(sub) : s[i + j] = sub[j]

n_color  == <<"c", "o", "l", "o", "r">>
n_number == <<"n", "u", "m", "b", "e", "r">>
n_count  == <<"c", "o", "u", "n", "t">>
n_valid  == <<"v", "a", "l", "i", "d">>
n_X      == <<"X">>
n_Y      == <<"Y">>
n_month  == <<"m", "o", "n", "t", "h">>
n_day    == <<"d", "a", "y">>
n_FFMC   == <<"F", "F", "M", "C">>
n_DMC    == <<"D", "M", "C">>
n_DC     == <<"D", "C">>
n_ISI    == <<"I", "S", "I">>
n_temp   == <<"t", "e", "m", "p">>
n_RH     == <<"R", "H">>
n_wind   == <<"w", "i", "n", "d">>
n_rain   == <<"r", "a", "i", "n">>
n_area   == <<"a", "r", "e", "a">>
n_summary == <<"s", "u", "m", "m", "a", "r", "y">>

s_red   == <<"r", "e", "d">>
s_blue  == <<"b", "l", "u", "e">>
s_green == <<"g", "r", "e", "e", "n">>
s_r     == <<"r">>
s_jun   == <<"j", "u", "n">>
s_jul   == <<"j", "u", "l">>
s_aug   == <<"a", "u", "g">>
s_dec   == <<"d", "e", "c">>
s_jan   == <<"j", "a", "n">>
s_feb   == <<"f", "e", "b">>
s_fri   == <<"f", "r", "i">>
s_sat   == <<"s", "a", "t">>

\* The name Spark gives the aggregate column of agg({'area': 'mean'}).
AvgName(col) == <<"a", "v", "g", "(">> \o col \o <<")">>

----------------------------------------------------------------------------
\* Values

IntV(n)  == [t |-> "int", v |-> n]
StrV(s)  == [t |-> "str", v |-> s]
BoolV(b) == [t |-> "bool", v |-> b]
NullV    == [t |-> "null", v |-> 0]

RECURSIVE Gcd(_, _)
Gcd(a, b) == IF b = 0 THEN a ELSE Gcd(b, a % b)

Abs(n) == IF n < 0 THEN 0 - n ELSE n

\* The rational num/den (den > 0) in lowest terms.
Rat(num, den) ==
  LET g == Gcd(Abs(num), den)
  IN  <<(IF num < 0 THEN 0 - (Abs(num) \div g) ELSE num \div g), den \div g>>

DoubleV(num, den) == [t |-> "double", v |-> Rat(num, den)]

RatLess(a, b) == a[1] * b[2] < b[1] * a[2]

\* Numeric value of an int or double cell as a rational.
AsRat(val) == IF val.t = "int" THEN <<val.v, 1>> ELSE val.v

RECURSIVE SumInts(_)
SumInts(s) == IF s = <<>> THEN 0 ELSE Head(s) + SumInts(Tail(s))

\* The subsequence of s at the indices where keep is TRUE, order kept.
RECURSIVE SelectIdx(_, _, _)
SelectIdx(s, keep, i) ==
  IF i > Len(s) THEN <<>>
  ELSE (IF keep[i] THEN <<s[i]>> ELSE <<>>) \o SelectIdx(s, keep, i + 1)

\* All orderings of the elements of the finite set S.
RECURSIVE Perms(_)
Perms(S) ==
  IF S = {} THEN {<<>>}
  ELSE UNION {{<<x>> \o p : p \in Perms(S \ {x})} : x \in S}

----------------------------------------------------------------------------
\* Arithmetic on exact doubles

RatAdd(a, b) == <<a[1] * b[2] + b[1] * a[2], a[2] * b[2]>>

RECURSIVE SumRats(_)
SumRats(s) == IF s = <<>> THEN <<0, 1>> ELSE RatAdd(AsRat(Head(s)), SumRats(Tail(s)))

\* Spark's avg / mean of a column: NULL over no rows, else sum / count.
MeanOf(vals) ==
  IF vals = <<>> THEN NullV
  ELSE LET s == SumRats(vals) IN [t |-> "double", v |-> Rat(s[1], s[2] * Len(vals))]

\* Integer square root; exact on the perfect squares the notebook's data gives.
ISqrt(n) == CHOOSE r \in 0..n : r * r <= n /\ (r + 1) * (r + 1) > n

\* Integer payloads of a sequence of int cells.
IntsOf(vals) == [i \in 1..Len(vals) |-> vals[i].v]

\* Sample standard deviation of int cells: sqrt((n*Sxx - Sx^2) / (n*(n-1))).
StddevOf(vals) ==
  LET xs == IntsOf(vals)
      n  == Len(xs)
      sx == SumInts(xs)
      sxx == SumInts([i \in 1..n |-> xs[i] * xs[i]])
  IN  IF n < 2 THEN NullV
      ELSE LET q == Rat(n * sxx - sx * sx, n * (n - 1))
           IN  [t |-> "double", v |-> Rat(ISqrt(q[1] * q[2]), q[2])]

\* Pearson correlation of two int sequences of equal length:
\* (n*Sxy - Sx*Sy) / sqrt((n*Sxx - Sx^2) * (n*Syy - Sy^2)).
Pearson(xs, ys) ==
  LET n   == Len(xs)
      sx  == SumInts(xs)
      sy  == SumInts(ys)
      sxy == SumInts([i \in 1..n |-> xs[i] * ys[i]])
      sxx == SumInts([i \in 1..n |-> xs[i] * xs[i]])
      syy == SumInts([i \in 1..n |-> ys[i] * ys[i]])
      d2  == (n * sxx - sx * sx) * (n * syy - sy * sy)
  IN  IF d2 = 0 THEN NullV
      ELSE [t |-> "double", v |-> Rat(n * sxy - sx * sy, ISqrt(d2))]

----------------------------------------------------------------------------
\* The literal rows and the CSV file

\* The three dicts passed to createDataFrame and to pd.DataFrame, keys in the
\* order they are written.
LiteralRows ==
  << << <<n_color, StrV(s_red)>>,   <<n_number, IntV(4)>>, <<n_count, IntV(1)>>,
        <<n_valid, BoolV(TRUE)>> >>,
     << <<n_color, StrV(s_blue)>>,  <<n_number, IntV(7)>>, <<n_count, IntV(2)>>,
        <<n_valid, BoolV(FALSE)>> >>,
     << <<n_color, StrV(s_green)>>, <<n_number, IntV(1)>>, <<n_count, IntV(3)>>,
        <<n_valid, BoolV(TRUE)>> >> >>

\* Header row of forestfires.csv as shown by fire_df.show(5).
FireHeader ==
  << n_X, n_Y, n_month, n_day, n_FFMC, n_DMC, n_DC, n_ISI, n_temp, n_RH,
     n_wind, n_rain, n_area >>

\* One data row of the file; the cells not varied are those of its first row.
\* rain and area are given in tenths.
FireRow(m, d, rain, area) ==
  << IntV(7), IntV(5), StrV(m), StrV(d),
     [t |-> "double", v |-> Rat(862, 10)], [t |-> "double", v |-> Rat(262, 10)],
     [t |-> "double", v |-> Rat(943, 10)], [t |-> "double", v |-> Rat(51, 10)],
     [t |-> "double", v |-> Rat(82, 10)], IntV(51),
     [t |-> "double", v |-> Rat(67, 10)],
     [t |-> "double", v |-> Rat(rain, 10)], [t |-> "double", v |-> Rat(area, 10)] >>

\* The data rows explored: two months (one summer, one winter), two days, and
\* for <<rain, area>> no rain and nothing burned, no rain and an area burned,
\* rain and nothing burned.
FireRowDomain ==
  { FireRow(m, d, ra[1], ra[2]) :
      m \in {s_aug, s_dec}, d \in {s_fri, s_sat}, ra \in {<<0, 0>>, <<0, 5>>, <<2, 0>>} }

SeqsUpTo(S, n) == UNION {[1..k -> S] : k \in 0..n}

FireFiles == {[header |-> FireHeader, rows |-> r] : r \in SeqsUpTo(FireRowDomain, MaxRows)}

----------------------------------------------------------------------------
\* Spark: schemas

\* sorted(row.items()): the items of a dict ordered by key.
RECURSIVE InsertItem(_, _)
InsertItem(x, s) ==
  IF s = <<>> THEN <<x>>
  ELSE IF StrLess(x[1], Head(s)[1]) THEN <<x>> \o s
  ELSE <<Head(s)>> \o InsertItem(x, Tail(s))

RECURSIVE SortedItems(_)
SortedItems(items) ==
  IF items = <<>> THEN <<>> ELSE InsertItem(Head(items), SortedItems(Tail(items)))

\* The Spark SQL type inferred for a Python value.
SparkType(val) ==
  CASE val.t = "str"    -> "string"
    [] val.t = "int"    -> "bigint"
    [] val.t = "bool"   -> "boolean"
    [] val.t = "double" -> "double"

\* Faulty variant: columns in the order the keys are written.
InferSchema_Unsorted(data) ==
  [i \in 1..Len(data[1]) |-> [name |-> data[1][i][1], type |-> SparkType(data[1][i][2])]]

\* Schema inferred by createDataFrame from dicts with no explicit types:
\* one column per key, in sorted key order, typed from the value.
InferSchema(data) ==
  LET items == SortedItems(data[1])
  IN  [i \in 1..Len(items) |-> [name |-> items[i][1], type |-> SparkType(items[i][2])]]

Lookup(dict, key) == dict[CHOOSE i \in 1..Len(dict) : dict[i][1] = key][2]

ColIdx(schema, name) == CHOOSE i \in 1..Len(schema) : schema[i].name = name

Names(schema) == [i \in 1..Len(schema) |-> schema[i].name]

\* Faulty variant: the values of a row are kept in the order they are written
\* while the columns are in sorted key order.
createDataFrame_Positional(data) ==
  LET schema == InferSchema(data)
  IN  [op |-> "local", child |-> <<>>, schema |-> schema,
       arg |-> [r \in 1..Len(data) |-> [i \in 1..Len(schema) |-> data[r][i][2]]]]

\* spark.createDataFrame(data): a local relation holding the rows as tuples in
\* schema order.  Nothing is computed.
createDataFrame(data) ==
  LET schema == InferSchema(data)
  IN  [op |-> "local", child |-> <<>>, schema |-> schema,
       arg |-> [r \in 1..Len(data) |->
                  [i \in 1..Len(schema) |-> Lookup(data[r], schema[i].name)]]]

\* inferSchema="true": int if every cell reads as an int, double if every cell
\* reads as a number, string otherwise (and for a file with no data rows).
CsvColumnType(cells) ==
  IF cells = {} THEN "string"
  ELSE IF \A c \in cells : c.t = "int" THEN "int"
  ELSE IF \A c \in cells : c.t \in {"int", "double"} THEN "double"
  ELSE "string"

\* Faulty variant: header="false", the first line is data and the columns are unnamed.
readCsv_NoHeader(file) ==
  [op |-> "csv", child |-> <<>>, arg |-> <<>>,
   schema |-> [i \in 1..(Len(file.header) - 1) |->
                 [name |-> <<"c">>, type |-> "string"]]]

\* spark.read.csv(path, header="true", inferSchema="true").
readCsv(file) ==
  [op |-> "csv", child |-> <<>>, arg |-> <<>>,
   schema |-> [i \in 1..Len(file.header) |->
                 [name |-> file.header[i],
                  type |-> CsvColumnType({file.rows[r][i] : r \in 1..Len(file.rows)})]]]

----------------------------------------------------------------------------
\* Spark: transformations (each returns a new plan, nothing is computed)

\* df.filter(<Column>): pred is the Column expression used as the mask.
Filter(df, pred) == [op |-> "filter", child |-> <<df>>, arg |-> pred, schema |-> df.schema]

\* Faulty variant: the selected columns come in the order the source has them,
\* not in the order requested.
Select_SourceOrder(df, cols) ==
  LET kept == SelectIdx(df.schema,
                        [i \in 1..Len(df.schema) |->
                           \E j \in 1..Len(cols) : cols[j] = df.schema[i].name], 1)
  IN  [op |-> "select", child |-> <<df>>, arg |-> Names(kept), schema |-> kept]

\* df.select(cols) for a sequence of column names.
Select(df, cols) ==
  [op |-> "select", child |-> <<df>>, arg |-> cols,
   schema |-> [i \in 1..Len(cols) |-> df.schema[ColIdx(df.schema, cols[i])]]]

\* df.select(mean(col)).
SelectMean(df, col) ==
  [op |-> "selectMean", child |-> <<df>>, arg |-> col,
   schema |-> <<[name |-> AvgName(col), type |-> "double"]>>]

\* df.groupBy(key).agg({col: 'mean'}).
GroupByAgg(df, key, col) ==
  [op |-> "groupByAvg", child |-> <<df>>, arg |-> [key |-> key, col |-> col],
   schema |-> <<df.schema[ColIdx(df.schema, key)],
                [name |-> AvgName(col), type |-> "double"]>>]

\* df.orderBy(col).
OrderBy(df, col) == [op |-> "orderBy", child |-> <<df>>, arg |-> col, schema |-> df.schema]

\* The columns describe() summarises: the string and numeric ones.
DescribedCols(schema) ==
  SelectIdx(schema, [i \in 1..Len(schema) |-> schema[i].type \in {"string", "bigint", "int", "double"}], 1)

\* df.describe().
Describe(df) ==
  [op |-> "describe", child |-> <<df>>, arg |-> <<>>,
   schema |-> <<[name |-> n_summary, type |-> "string"]>> \o
              [i \in 1..Len(DescribedCols(df.schema)) |->
                 [name |-> DescribedCols(df.schema)[i].name, type |-> "string"]]]

\* The row limit of show(n) and take(n).
Limit(df, n) == [op |-> "limit", child |-> <<df>>, arg |-> n, schema |-> df.schema]

----------------------------------------------------------------------------
\* Spark: Column expressions

\* df[name]
Col(name) == [kind |-> "Column", fn |-> "col", col |-> name, val |-> <<>>]
\* Column.contains(text), Column == number, Column > number, Column.isin(list)
ColContains(c, text) == [kind |-> "Column", fn |-> "contains", col |-> c.col, val |-> text]
ColEq(c, num)        == [kind |-> "Column", fn |-> "eq", col |-> c.col, val |-> num]
ColGt(c, num)        == [kind |-> "Column", fn |-> "gt", col |-> c.col, val |-> num]
ColIsin(c, texts)    == [kind |-> "Column", fn |-> "isin", col |-> c.col, val |-> texts]

\* Column.show: show is no method of Column, so the attribute lookup yields
\* another Column (a field access), whatever the name.
ColumnGetAttr(c, attr) == [kind |-> "Column", fn |-> "getField", col |-> c.col, val |-> attr]

\* Faulty variant: a Column that can be shown.
CallValue_Shows(obj) == [ok |-> TRUE, type |-> "", msg |-> ""]

\* obj(): calling a Column raises TypeError.
CallValue(obj) ==
  IF obj.kind = "Column"
  THEN [ok |-> FALSE, type |-> "TypeError", msg |-> "'Column' object is not callable"]
  ELSE [ok |-> TRUE, type |-> "", msg |-> ""]

\* Faulty variant: contains tests equality with the text, not containment.
EvalPred_ContainsIsEquals(pred, row, schema) ==
  LET c == row[ColIdx(schema, pred.col)]
  IN  CASE pred.fn = "contains" -> c.v = pred.val
        [] pred.fn = "eq"       -> AsRat(c) = pred.val
        [] pred.fn = "gt"       -> RatLess(pred.val, AsRat(c))
        [] pred.fn = "isin"     -> c.v \in pred.val

\* The value of a mask Column on one row.
EvalPred(pred, row, schema) ==
  LET c == row[ColIdx(schema, pred.col)]
  IN  CASE pred.fn = "contains" -> Contains(c.v, pred.val)
        [] pred.fn = "eq"       -> AsRat(c) = pred.val
        [] pred.fn = "gt"       -> RatLess(pred.val, AsRat(c))
        [] pred.fn = "isin"     -> c.v \in pred.val

----------------------------------------------------------------------------
\* Spark: execution of a plan (what an action computes)

Column(rows, i) == [r \in 1..Len(rows) |-> rows[r][i]]

PermuteSeq(s) == {[i \in 1..Len(s) |-> s[p[i]]] : p \in Perms(1..Len(s))}

\* The distinct values of column k in order of first appearance.
RECURSIVE DistinctKeys(_, _)
DistinctKeys(rows, k) ==
  IF rows = <<>> THEN <<>>
  ELSE LET rest == DistinctKeys(SubSeq(rows, 1, Len(rows) - 1), k)
           key  == rows[Len(rows)][k]
       IN  IF \E i \in 1..Len(rest) : rest[i] = key THEN rest ELSE Append(rest, key)

\* Faulty variant: one output row per input row, keys not merged.
GroupRows_PerRow(rows, k, a) ==
  [i \in 1..Len(rows) |-> <<rows[i][k], MeanOf(<<rows[i][a]>>)>>]

\* The rows of a group-by-average: one per distinct key, with the mean of
\* column a over the rows of that key.
GroupRows(rows, k, a) ==
  LET keys == DistinctKeys(rows, k)
  IN  [g \in 1..Len(keys) |->
         <<keys[g],
           MeanOf(Column(SelectIdx(rows, [i \in 1..Len(rows) |-> rows[i][k] = keys[g]], 1), a))>>]

\* Faulty variant: the rows come largest first.
IsSortedBy_Descending(rows, c) ==
  \A i, j \in 1..Len(rows) : i < j => ~RatLess(AsRat(rows[i][c]), AsRat(rows[j][c]))

IsSortedBy(rows, c) ==
  \A i, j \in 1..Len(rows) : i < j => ~RatLess(AsRat(rows[j][c]), AsRat(rows[i][c]))

RECURSIVE MinBy(_, _, _)
MinBy(vals, i, text) ==
  IF i = Len(vals) THEN vals[i]
  ELSE LET m == MinBy(vals, i + 1, text)
       IN  IF (IF text THEN StrLess(m.v, vals[i].v) ELSE RatLess(AsRat(m), AsRat(vals[i])))
           THEN m ELSE vals[i]

RECURSIVE MaxBy(_, _, _)
MaxBy(vals, i, text) ==
  IF i = Len(vals) THEN vals[i]
  ELSE LET m == MaxBy(vals, i + 1, text)
       IN  IF (IF text THEN StrLess(vals[i].v, m.v) ELSE RatLess(AsRat(vals[i]), AsRat(m)))
           THEN m ELSE vals[i]

\* The five summary rows of describe(): count, mean, stddev, min, max.
DescribeRows(rows, schema) ==
  LET cols == DescribedCols(schema)
      cell(stat, i) ==
        LET vals == Column(rows, ColIdx(schema, cols[i].name))
            text == cols[i].type = "string"
        IN  CASE stat = "count"  -> IntV(Len(vals))
              [] stat = "mean"   -> IF text THEN NullV ELSE MeanOf(vals)
              [] stat = "stddev" -> IF text THEN NullV ELSE StddevOf(vals)
              [] stat = "min"    -> IF vals = <<>> THEN NullV ELSE MinBy(vals, 1, text)
              [] stat = "max"    -> IF vals = <<>> THEN NullV ELSE MaxBy(vals, 1, text)
      stats == <<"count", "mean", "stddev", "min", "max">>
  IN  [s \in 1..5 |-> <<stats[s]>> \o [i \in 1..Len(cols) |-> cell(stats[s], i)]]

\* Faulty variant: one row too many when there is one.
TakeRows_OneMore(rows, n) ==
  SubSeq(rows, 1, IF n + 1 < Len(rows) THEN n + 1 ELSE Len(rows))

\* The rows a limit of n lets through: the first n, or all if there are fewer.
TakeRows(rows, n) == SubSeq(rows, 1, IF n < Len(rows) THEN n ELSE Len(rows))

\* The row sequences an action on df may return, reading the CSV from file.
\* The row order of a group-by is not defined by Spark (the notebook's own
\* output is in neither input nor key order), so every order is possible;
\* orderBy returns any order that is sorted by the column.
RECURSIVE Results(_, _)
Results(df, file) ==
  CASE df.op = "local" -> {df.arg}
    [] df.op = "csv"   -> {file.rows}
    [] df.op = "filter" ->
         {SelectIdx(rows, [i \in 1..Len(rows) |-> EvalPred(df.arg, rows[i], df.child[1].schema)], 1) :
            rows \in Results(df.child[1], file)}
    [] df.op = "select" ->
         {[r \in 1..Len(rows) |->
             [i \in 1..Len(df.arg) |-> rows[r][ColIdx(df.child[1].schema, df.arg[i])]]] :
            rows \in Results(df.child[1], file)}
    [] df.op = "selectMean" ->
         {<<<<MeanOf(Column(rows, ColIdx(df.child[1].schema, df.arg)))>>>> :
            rows \in Results(df.child[1], file)}
    [] df.op = "groupByAvg" ->
         UNION {PermuteSeq(GroupRows(rows, ColIdx(df.child[1].schema, df.arg.key),
                                     ColIdx(df.child[1].schema, df.arg.col))) :
                  rows \in Results(df.child[1], file)}
    [] df.op = "orderBy" ->
         UNION {{s \in PermuteSeq(rows) : IsSortedBy(s, ColIdx(df.schema, df.arg))} :
                  rows \in Results(df.child[1], file)}
    [] df.op = "describe" ->
         {DescribeRows(rows, df.child[1].schema) : rows \in Results(df.child[1], file)}
    [] df.op = "limit" ->
         {TakeRows(rows, df.arg) : rows \in Results(df.child[1], file)}

\* df.corr(c1, c2): an action returning one number.
SparkCorr(df, file, c1, c2) ==
  {Pearson(IntsOf(Column(rows, ColIdx(df.schema, c1))),
           IntsOf(Column(rows, ColIdx(df.schema, c2)))) : rows \in Results(df, file)}

----------------------------------------------------------------------------
\* pandas

PandasDtype(val) ==
  CASE val.t = "str"  -> "object"
    [] val.t = "int"  -> "int64"
    [] val.t = "bool" -> "bool"

\* pd.DataFrame(list of dicts): columns in the order the keys are written,
\* a RangeIndex from 0, all data held in memory.
pdDataFrame(data) ==
  [columns |-> [i \in 1..Len(data[1]) |-> data[1][i][1]],
   dtypes  |-> [i \in 1..Len(data[1]) |-> PandasDtype(data[1][i][2])],
   index   |-> [r \in 1..Len(data) |-> r - 1],
   rows    |-> [r \in 1..Len(data) |-> [i \in 1..Len(data[1]) |-> Lookup(data[r], data[1][i][1])]]]

\* pandas_df[name]: a Series.
pdGetItem(df, name) ==
  LET i == CHOOSE k \in 1..Len(df.columns) : df.columns[k] = name
  IN  [name |-> name, index |-> df.index, values |-> Column(df.rows, i)]

\* Series.str.contains(text): a Series of booleans.
pdStrContains(series, text) ==
  [name |-> series.name, index |-> series.index,
   values |-> [i \in 1..Len(series.values) |-> BoolV(Contains(series.values[i].v, text))]]

\* pandas_df[mask]: the rows where the mask is True, index labels kept.
pdMask(df, mask) ==
  LET keep == [i \in 1..Len(df.rows) |-> mask.values[i].v]
  IN  [columns |-> df.columns, dtypes |-> df.dtypes,
       index |-> SelectIdx(df.index, keep, 1), rows |-> SelectIdx(df.rows, keep, 1)]

\* float(v) as to_numpy(dtype=float) applies it to a cell: a non-numeric str
\* cannot be converted.
CanFloat(val) == val.t \in {"int", "bool", "double"}

FloatOf(val) == IF val.t = "bool" THEN (IF val.v THEN 1 ELSE 0) ELSE val.v

\* The cells of df in column-major order (the order the blocks are converted).
Cells(df) ==
  [k \in 1..(Len(df.columns) * Len(df.rows)) |->
     df.rows[((k - 1) % Len(df.rows)) + 1][((k - 1) \div Len(df.rows)) + 1]]

\* DataFrame.corr() with no arguments (numeric_only=False, the installed
\* pandas' default): every column is converted to float; the first cell that
\* cannot be converted raises ValueError; otherwise the matrix of pairwise
\* Pearson correlations is returned.
pdCorr(df) ==
  LET cells == Cells(df)
      bad   == {k \in 1..Len(cells) : ~CanFloat(cells[k])}
  IN  IF bad # {}
      THEN [ok |-> FALSE, type |-> "ValueError",
            msg |-> "could not convert string to float",
            at |-> cells[CHOOSE k \in bad : \A j \in bad : k <= j].v,
            val |-> <<>>]
      ELSE [ok |-> TRUE, type |-> "", msg |-> "", at |-> <<>>,
            val |-> [i \in 1..Len(df.columns) |-> [j \in 1..Len(df.columns) |->
                       Pearson([r \in 1..Len(df.rows) |-> FloatOf(df.rows[r][i])],
                               [r \in 1..Len(df.rows) |-> FloatOf(df.rows[r][j])])]]]

----------------------------------------------------------------------------
\* The notebook kernel

VARIABLES
  pc,         \* the next code cell to execute, in source order
  running,    \* the cells whose execution has started and not finished
  executed,   \* the cells that have finished, in the order they finished
  session,    \* the Spark session: active, times created, times stopped
  csv,        \* forestfires.csv as it is on disk
  ns,         \* the Spark DataFrame variables of the notebook
  pandas_df,  \* the pandas DataFrame variable
  out,        \* the output area of the cell that finished last
  errors,     \* every exception raised so far: cell, type, caught or not
  jobs        \* every Spark job run so far: cell, DataFrame, trigger, yield

vars == <<pc, running, executed, session, csv, ns, pandas_df, out, errors, jobs>>

\* The number of code cells with source (the empty cell is never executed).
LastCell == 36

\* A name not yet bound.
NoneDF == [op |-> "none", child |-> <<>>, arg |-> <<>>, schema |-> <<>>]

NonePandas == [columns |-> <<>>, dtypes |-> <<>>, index |-> <<>>, rows |-> <<>>]

Item(kind, schema, rows, text) ==
  [kind |-> kind, schema |-> schema, rows |-> rows, text |-> text]

\* repr(df) of a Spark DataFrame: DataFrame[name: type, ...], never any row.
Display(df) ==
  Item("schema", [i \in 1..Len(df.schema) |-> <<df.schema[i].name, df.schema[i].type>>], <<>>, "")

\* The type names printSchema() uses.
TypeName(type) ==
  CASE type = "bigint" -> "long"
    [] type = "int"    -> "integer"
    [] OTHER           -> type

\* df.printSchema(): one line per column: name, type name, nullable.
PrintSchema(df) ==
  Item("printSchema",
       [i \in 1..Len(df.schema) |-> <<df.schema[i].name, TypeName(df.schema[i].type), TRUE>>],
       <<>>, "root")

\* df.columns and df.dtypes.
Columns(df) == Item("columns", Names(df.schema), <<>>, "")

Dtypes(df) ==
  Item("dtypes", [i \in 1..Len(df.schema) |-> <<df.schema[i].name, df.schema[i].type>>], <<>>, "")

\* The list of Row objects collect() and take(n) return.
RowList(df, rows) == Item("rows", Names(df.schema), rows, "")

\* The table show(n) prints from the rows of df: at most n of them, and a
\* note when there are more.
ShowTable(df, rows, n) ==
  Item("table", Names(df.schema),
       SubSeq(rows, 1, IF n < Len(rows) THEN n ELSE Len(rows)),
       IF Len(rows) > n THEN "only showing top rows" ELSE "")

Printed(text) == Item("text", <<>>, <<>>, text)

Value(v) == Item("value", <<>>, <<v>>, "")

Job(cell, df, trigger, yields) ==
  [cell |-> cell, df |-> df, trigger |-> trigger, yields |-> yields]

\* SparkSession.builder.master('local').getOrCreate(): the active session if
\* there is one, else a new one.
getOrCreate(s) ==
  IF s.active THEN s
  ELSE [active |-> TRUE, created |-> s.created + 1, stopped |-> s.stopped]

\* Faulty variant: the session is never released.
stop_Leaks(s) == s

\* spark.stop(): releases the active session.
stop(s) ==
  IF s.active THEN [active |-> FALSE, created |-> s.created, stopped |-> s.stopped + 1]
  ELSE s

Init ==
  /\ pc = 1
  /\ running = {}
  /\ executed = <<>>
  /\ session = [active |-> FALSE, created |-> 0, stopped |-> 0]
  /\ csv \in FireFiles
  /\ ns = [spark_df |-> NoneDF, fire_df |-> NoneDF, fire_df_months |-> NoneDF,
           fire_df_day |-> NoneDF, no_rain |-> NoneDF, some_rain |-> NoneDF,
           summer_months |-> NoneDF, winter_months |-> NoneDF]
  /\ pandas_df = NonePandas
  /\ out = [cell |-> 0, items |-> <<>>]
  /\ errors = <<>>
  /\ jobs = <<>>

\* Faulty variant: the next cell is started while another is still running.
Dispatch_Overlapping ==
  /\ pc <= LastCell
  /\ running' = running \cup {pc}
  /\ pc' = pc + 1
  /\ UNCHANGED <<executed, session, csv, ns, pandas_df, out, errors, jobs>>

\* The kernel starts the next cell in source order once it is idle.
Dispatch ==
  /\ pc <= LastCell
  /\ running = {}
  /\ running' = {pc}
  /\ pc' = pc + 1
  /\ UNCHANGED <<executed, session, csv, ns, pandas_df, out, errors, jobs>>

\* Cell k returns: its calls have blocked until their results were there.
Done(k) ==
  /\ k \in running
  /\ running' = running \ {k}
  /\ executed' = Append(executed, k)
  /\ pc' = pc

Output(k, items) == out' = [cell |-> k, items |-> items]

\* spark = SparkSession.builder.master('local').getOrCreate()
Cell01_GetOrCreate ==
  /\ Done(1)
  /\ session' = getOrCreate(session)
  /\ Output(1, <<>>)
  /\ UNCHANGED <<csv, ns, pandas_df, errors, jobs>>

\* spark_df = spark.createDataFrame([...]); spark_df
Cell02_CreateDataFrame ==
  /\ Done(2)
  /\ ns' = [ns EXCEPT !.spark_df = createDataFrame(LiteralRows)]
  /\ Output(2, <<Display(ns'.spark_df)>>)
  /\ UNCHANGED <<session, csv, pandas_df, errors, jobs>>

\* spark_df.printSchema()
Cell03_PrintSchema ==
  /\ Done(3)
  /\ Output(3, <<PrintSchema(ns.spark_df)>>)
  /\ UNCHANGED <<session, csv, ns, pandas_df, errors, jobs>>

\* spark_df.collect()
Cell04_Collect ==
  /\ Done(4)
  /\ \E rows \in Results(ns.spark_df, csv) : Output(4, <<RowList(ns.spark_df, rows)>>)
  /\ jobs' = Append(jobs, Job(4, ns.spark_df, "collect", "rows"))
  /\ UNCHANGED <<session, csv, ns, pandas_df, errors>>

\* spark_df.take(2)
Cell05_Take ==
  /\ Done(5)
  /\ \E rows \in Results(Limit(ns.spark_df, 2), csv) : Output(5, <<RowList(ns.spark_df, rows)>>)
  /\ jobs' = Append(jobs, Job(5, ns.spark_df, "take", "rows"))
  /\ UNCHANGED <<session, csv, ns, pandas_df, errors>>

\* spark_df.show()
Cell06_Show ==
  /\ Done(6)
  /\ \E rows \in Results(ns.spark_df, csv) : Output(6, <<ShowTable(ns.spark_df, rows, 20)>>)
  /\ jobs' = Append(jobs, Job(6, ns.spark_df, "show", "rows"))
  /\ UNCHANGED <<session, csv, ns, pandas_df, errors>>

\* spark_df.select("number").show()
Cell07_SelectNumber ==
  LET df == Select(ns.spark_df, <<n_number>>)
  IN  /\ Done(7)
      /\ \E rows \in Results(df, csv) : Output(7, <<ShowTable(df, rows, 20)>>)
      /\ jobs' = Append(jobs, Job(7, df, "show", "rows"))
      /\ UNCHANGED <<session, csv, ns, pandas_df, errors>>

\* spark_df.select(["number", "valid"]).show()
Cell08_SelectNumberValid ==
  LET df == Select(ns.spark_df, <<n_number, n_valid>>)
  IN  /\ Done(8)
      /\ \E rows \in Results(df, csv) : Output(8, <<ShowTable(df, rows, 20)>>)
      /\ jobs' = Append(jobs, Job(8, df, "show", "rows"))
      /\ UNCHANGED <<session, csv, ns, pandas_df, errors>>

\* spark_df.columns
Cell09_Columns ==
  /\ Done(9)
  /\ Output(9, <<Columns(ns.spark_df)>>)
  /\ UNCHANGED <<session, csv, ns, pandas_df, errors, jobs>>

\* spark_df.describe().show()
Cell10_Describe ==
  LET df == Describe(ns.spark_df)
  IN  /\ Done(10)
      /\ \E rows \in Results(df, csv) : Output(10, <<ShowTable(df, rows, 20)>>)
      /\ jobs' = Append(jobs, Job(10, df, "show", "rows"))
      /\ UNCHANGED <<session, csv, ns, pandas_df, errors>>

\* fire_df = spark.read.csv("forestfires.csv", header="true", inferSchema="true")
\* fire_df.show(5)
\* Inferring the schema reads the file once; show(5) reads rows.
Cell11_ReadCsv ==
  /\ Done(11)
  /\ ns' = [ns EXCEPT !.fire_df = readCsv(csv)]
  /\ \E rows \in Results(ns'.fire_df, csv) : Output(11, <<ShowTable(ns'.fire_df, rows, 5)>>)
  /\ jobs' = jobs \o <<Job(11, ns'.fire_df, "read.csv", "schema"),
                       Job(11, ns'.fire_df, "show", "rows")>>
  /\ UNCHANGED <<session, csv, pandas_df, errors>>

\* Faulty variant: the aggregation is computed when it is defined, and displayed.
Cell12_GroupByMonth_Eager ==
  /\ Done(12)
  /\ ns' = [ns EXCEPT !.fire_df_months = GroupByAgg(ns.fire_df, n_month, n_area)]
  /\ \E rows \in Results(ns'.fire_df_months, csv) :
       Output(12, <<RowList(ns'.fire_df_months, rows)>>)
  /\ jobs' = Append(jobs, Job(12, ns'.fire_df_months, "agg", "rows"))
  /\ UNCHANGED <<session, csv, pandas_df, errors>>

\* fire_df_months = fire_df.groupBy('month').agg({'area': 'mean'}); fire_df_months
Cell12_GroupByMonth ==
  /\ Done(12)
  /\ ns' = [ns EXCEPT !.fire_df_months = GroupByAgg(ns.fire_df, n_month, n_area)]
  /\ Output(12, <<Display(ns'.fire_df_months)>>)
  /\ UNCHANGED <<session, csv, pandas_df, errors, jobs>>

\* fire_df_months.collect()
Cell13_CollectMonths ==
  /\ Done(13)
  /\ \E rows \in Results(ns.fire_df_months, csv) :
       Output(13, <<RowList(ns.fire_df_months, rows)>>)
  /\ jobs' = Append(jobs, Job(13, ns.fire_df_months, "collect", "rows"))
  /\ UNCHANGED <<session, csv, ns, pandas_df, errors>>

\* fire_df_months.orderBy("avg(area)").show()
Cell14_OrderMonths ==
  LET df == OrderBy(ns.fire_df_months, AvgName(n_area))
  IN  /\ Done(14)
      /\ \E rows \in Results(df, csv) : Output(14, <<ShowTable(df, rows, 20)>>)
      /\ jobs' = Append(jobs, Job(14, df, "show", "rows"))
      /\ UNCHANGED <<session, csv, ns, pandas_df, errors>>

\* fire_df_day = fire_df.groupBy("day").agg({'area':'mean'}); fire_df_day.collect()
Cell15_GroupByDay ==
  /\ Done(15)
  /\ ns' = [ns EXCEPT !.fire_df_day = GroupByAgg(ns.fire_df, n_day, n_area)]
  /\ \E rows \in Results(ns'.fire_df_day, csv) :
       Output(15, <<RowList(ns'.fire_df_day, rows)>>)
  /\ jobs' = Append(jobs, Job(15, ns'.fire_df_day, "collect", "rows"))
  /\ UNCHANGED <<session, csv, pandas_df, errors>>

\* fire_df_day.orderBy("avg(area)").show()
Cell16_OrderDays ==
  LET df == OrderBy(ns.fire_df_day, AvgName(n_area))
  IN  /\ Done(16)
      /\ \E rows \in Results(df, csv) : Output(16, <<ShowTable(df, rows, 20)>>)
      /\ jobs' = Append(jobs, Job(16, df, "show", "rows"))
      /\ UNCHANGED <<session, csv, ns, pandas_df, errors>>

\* no_rain = fire_df.filter(fire_df['rain'] == 0.0)
\* some_rain = fire_df.filter(fire_df['rain'] > 0.0)
Cell17_RainFilters ==
  /\ Done(17)
  /\ ns' = [ns EXCEPT !.no_rain = Filter(ns.fire_df, ColEq(Col(n_rain), <<0, 1>>)),
                      !.some_rain = Filter(ns.fire_df, ColGt(Col(n_rain), <<0, 1>>))]
  /\ Output(17, <<>>)
  /\ UNCHANGED <<session, csv, pandas_df, errors, jobs>>

\* print(...); no_rain.select(mean('area')).show()
\* print(...); some_rain.select(mean('area')).show()
Cell18_RainMeans ==
  LET a == SelectMean(ns.no_rain, n_area)
      b == SelectMean(ns.some_rain, n_area)
  IN  /\ Done(18)
      /\ \E ra \in Results(a, csv), rb \in Results(b, csv) :
           Output(18, <<Printed("no rain fire area:"), ShowTable(a, ra, 20),
                        Printed("some rain fire area:"), ShowTable(b, rb, 20)>>)
      /\ jobs' = jobs \o <<Job(18, a, "show", "rows"), Job(18, b, "show", "rows")>>
      /\ UNCHANGED <<session, csv, ns, pandas_df, errors>>

\* summer_months = fire_df.filter(fire_df['month'].isin(['jun','jul','aug']))
\* winter_months = fire_df.filter(fire_df['month'].isin(['dec','jan','feb']))
\* print(...); summer_months.select(mean('area')).show()
\* print(...); winter_months.select(mean('area')).show()
Cell19_SeasonMeans ==
  LET a == SelectMean(ns'.summer_months, n_area)
      b == SelectMean(ns'.winter_months, n_area)
  IN  /\ Done(19)
      /\ ns' = [ns EXCEPT
                  !.summer_months = Filter(ns.fire_df, ColIsin(Col(n_month), {s_jun, s_jul, s_aug})),
                  !.winter_months = Filter(ns.fire_df, ColIsin(Col(n_month), {s_dec, s_jan, s_feb}))]
      /\ \E ra \in Results(a, csv), rb \in Results(b, csv) :
           Output(19, <<Printed("summer months fire area:"), ShowTable(a, ra, 20),
                        Printed("winter months fire area"), ShowTable(b, rb, 20)>>)
      /\ jobs' = jobs \o <<Job(19, a, "show", "rows"), Job(19, b, "show", "rows")>>
      /\ UNCHANGED <<session, csv, pandas_df, errors>>

\* repr of a pandas DataFrame: the data itself, with the index labels.
PandasRepr(df) ==
  Item("pandas", df.columns, [i \in 1..Len(df.rows) |-> <<df.index[i]>> \o df.rows[i]], "")

\* repr of a pandas Series.
SeriesRepr(series) ==
  Item("series", <<series.name>>,
       [i \in 1..Len(series.values) |-> <<series.index[i], series.values[i]>>], "")

\* repr of a Column: Column<'...'>, no data.
ColumnRepr(c) == Item("column", <<c.col>>, <<>>, c.fn)

\* An exception raised in cell k, caught by an except clause or not.
Raised(k, r, caught) == [cell |-> k, type |-> r.type, caught |-> caught]

\* pandas_df = pd.DataFrame([...])
Cell20_PandasCreate ==
  /\ Done(20)
  /\ pandas_df' = pdDataFrame(LiteralRows)
  /\ Output(20, <<>>)
  /\ UNCHANGED <<session, csv, ns, errors, jobs>>

\* pandas_df
Cell21_PandasDisplay ==
  /\ Done(21)
  /\ Output(21, <<PandasRepr(pandas_df)>>)
  /\ UNCHANGED <<session, csv, ns, pandas_df, errors, jobs>>

\* spark_df
Cell22_SparkDisplay ==
  /\ Done(22)
  /\ Output(22, <<Display(ns.spark_df)>>)
  /\ UNCHANGED <<session, csv, ns, pandas_df, errors, jobs>>

\* pandas_df.dtypes
Cell23_PandasDtypes ==
  /\ Done(23)
  /\ Output(23, <<Item("pandas.dtypes",
                       [i \in 1..Len(pandas_df.columns) |->
                          <<pandas_df.columns[i], pandas_df.dtypes[i]>>], <<>>, "")>>)
  /\ UNCHANGED <<session, csv, ns, pandas_df, errors, jobs>>

\* spark_df.dtypes
Cell24_SparkDtypes ==
  /\ Done(24)
  /\ Output(24, <<Dtypes(ns.spark_df)>>)
  /\ UNCHANGED <<session, csv, ns, pandas_df, errors, jobs>>

\* pandas_df.corr()
\* No try/except: an exception ends the cell and is shown as its output.  The
\* kernel stays alive and the following cells are executed.
Cell25_PandasCorr ==
  LET r == pdCorr(pandas_df)
  IN  /\ Done(25)
      /\ IF r.ok
         THEN /\ Output(25, <<Item("pandas", pandas_df.columns, r.val, "")>>)
              /\ errors' = errors
         ELSE /\ Output(25, <<Item("error", <<>>, <<r.at>>, r.type)>>)
              /\ errors' = Append(errors, Raised(25, r, FALSE))
      /\ UNCHANGED <<session, csv, ns, pandas_df, jobs>>

\* spark_df.corr("number", "count")
Cell26_SparkCorr ==
  /\ Done(26)
  /\ \E v \in SparkCorr(ns.spark_df, csv, n_number, n_count) : Output(26, <<Value(v)>>)
  /\ jobs' = Append(jobs, Job(26, ns.spark_df, "corr", "scalar"))
  /\ UNCHANGED <<session, csv, ns, pandas_df, errors>>

\* pandas_df["color"]
Cell27_PandasColumn ==
  /\ Done(27)
  /\ Output(27, <<SeriesRepr(pdGetItem(pandas_df, n_color))>>)
  /\ UNCHANGED <<session, csv, ns, pandas_df, errors, jobs>>

\* pandas_df["color"].str.contains("r")
Cell28_PandasContains ==
  /\ Done(28)
  /\ Output(28, <<SeriesRepr(pdStrContains(pdGetItem(pandas_df, n_color), s_r))>>)
  /\ UNCHANGED <<session, csv, ns, pandas_df, errors, jobs>>

\* pandas_df[pandas_df["color"].str.contains("r")]
Cell29_PandasMask ==
  /\ Done(29)
  /\ Output(29, <<PandasRepr(pdMask(pandas_df, pdStrContains(pdGetItem(pandas_df, n_color), s_r)))>>)
  /\ UNCHANGED <<session, csv, ns, pandas_df, errors, jobs>>

\* spark_df["color"]
Cell30_SparkColumn ==
  /\ Done(30)
  /\ Output(30, <<ColumnRepr(Col(n_color))>>)
  /\ UNCHANGED <<session, csv, ns, pandas_df, errors, jobs>>

\* try: <column>.show()  except Exception as e: print(type(e)); print(e)
\* Every exception of the call is caught and printed; the cell returns normally.
TryShow(k, column) ==
  LET r == CallValue(ColumnGetAttr(column, "show"))
  IN  /\ Done(k)
      /\ IF r.ok
         THEN /\ Output(k, <<>>)
              /\ errors' = errors
         ELSE /\ Output(k, <<Printed(r.type), Printed(r.msg)>>)
              /\ errors' = Append(errors, Raised(k, r, TRUE))
      /\ UNCHANGED <<session, csv, ns, pandas_df, jobs>>

\* try: spark_df["color"].show() ...
Cell31_TryShowColumn == TryShow(31, Col(n_color))

\* spark_df["color"].contains("r")
Cell32_SparkContainsColumn ==
  /\ Done(32)
  /\ Output(32, <<ColumnRepr(ColContains(Col(n_color), s_r))>>)
  /\ UNCHANGED <<session, csv, ns, pandas_df, errors, jobs>>

\* try: spark_df["color"].contains("r").show() ...
Cell33_TryShowContains == TryShow(33, ColContains(Col(n_color), s_r))

\* Faulty variant: the filtered DataFrame is bound to the name spark_df.
Cell34_FilterDisplay_Rebinds ==
  /\ Done(34)
  /\ ns' = [ns EXCEPT !.spark_df = Filter(ns.spark_df, ColContains(Col(n_color), s_r))]
  /\ Output(34, <<Display(ns'.spark_df)>>)
  /\ UNCHANGED <<session, csv, pandas_df, errors, jobs>>

\* spark_df.filter(spark_df["color"].contains("r"))
Cell34_FilterDisplay ==
  /\ Done(34)
  /\ Output(34, <<Display(Filter(ns.spark_df, ColContains(Col(n_color), s_r)))>>)
  /\ UNCHANGED <<session, csv, ns, pandas_df, errors, jobs>>

\* spark_df.filter(spark_df["color"].contains("r")).show()
Cell35_FilterShow ==
  LET df == Filter(ns.spark_df, ColContains(Col(n_color), s_r))
  IN  /\ Done(35)
      /\ \E rows \in Results(df, csv) : Output(35, <<ShowTable(df, rows, 20)>>)
      /\ jobs' = Append(jobs, Job(35, df, "show", "rows"))
      /\ UNCHANGED <<session, csv, ns, pandas_df, errors>>

\* spark.stop()
Cell36_Stop ==
  /\ Done(36)
  /\ session' = stop(session)
  /\ Output(36, <<>>)
  /\ UNCHANGED <<csv, ns, pandas_df, errors, jobs>>

Next ==
  \/ Dispatch
  \/ Cell01_GetOrCreate
  \/ Cell02_CreateDataFrame
  \/ Cell03_PrintSchema
  \/ Cell04_Collect
  \/ Cell05_Take
  \/ Cell06_Show
  \/ Cell07_SelectNumber
  \/ Cell08_SelectNumberValid
  \/ Cell09_Columns
  \/ Cell10_Describe
  \/ Cell11_ReadCsv
  \/ Cell12_GroupByMonth
  \/ Cell13_CollectMonths
  \/ Cell14_OrderMonths
  \/ Cell15_GroupByDay
  \/ Cell16_OrderDays
  \/ Cell17_RainFilters
  \/ Cell18_RainMeans
  \/ Cell19_SeasonMeans
  \/ Cell20_PandasCreate
  \/ Cell21_PandasDisplay
  \/ Cell22_SparkDisplay
  \/ Cell23_PandasDtypes
  \/ Cell24_SparkDtypes
  \/ Cell25_PandasCorr
  \/ Cell26_SparkCorr
  \/ Cell27_PandasColumn
  \/ Cell28_PandasContains
  \/ Cell29_PandasMask
  \/ Cell30_SparkColumn
  \/ Cell31_TryShowColumn
  \/ Cell32_SparkContainsColumn
  \/ Cell33_TryShowContains
  \/ Cell34_FilterDisplay
  \/ Cell35_FilterShow
  \/ Cell36_Stop

Spec == Init /\ [][Next]_vars

----------------------------------------------------------------------------
\* Properties

\* Cell k has been executed to its end.
Ran(k) == \E i \in 1..Len(executed) : executed[i] = k

\* The whole notebook has been executed.
Finished == pc = LastCell + 1 /\ running = {}

\* C1: over the whole run the Spark session is created exactly once (by
\* getOrCreate) and released exactly once (by stop), and it is released after
\* it was created: never more than one creation or release, no release without
\* a creation, created once getOrCreate has run, released once stop has run.
C1_SessionCreatedOnceStoppedOnce ==
  /\ session.created <= 1
  /\ session.stopped <= session.created
  /\ session.active <=> (session.created = 1 /\ session.stopped = 0)
  /\ Ran(1) => session.created = 1
  /\ ~Ran(36) => session.stopped = 0
  /\ Ran(36) => session.stopped = 1
  /\ Finished => (session.created = 1 /\ session.stopped = 1)

C1_Witness == Finished /\ Ran(1) /\ Ran(36) /\ session.created = 1 /\ session.stopped = 1

\* The calls the claim names as materializing.
Materialize == {"collect", "take", "show"}

\* The plan df reads the rows of the plan target.
RECURSIVE PlanUses(_, _)
PlanUses(df, target) ==
  \/ df = target
  \/ df.child # <<>> /\ PlanUses(df.child[1], target)

NoJobOn(target) == \A i \in 1..Len(jobs) : ~PlanUses(jobs[i].df, target)

SchemaOnly(k) ==
  out.cell = k =>
    /\ Len(out.items) = 1
    /\ out.items[1].kind = "schema"
    /\ out.items[1].rows = <<>>

\* C2: transformations are deferred.  The display of the DataFrame returned by
\* createDataFrame, groupBy(...).agg(...) and filter(...) shows its schema and
\* no rows; every job that computes rows was started by collect, take or show;
\* and between the cell that defines such a DataFrame and the first cell that
\* calls collect, take or show on it, no job has read it.
C2_TransformationsDeferred ==
  /\ \A i \in 1..Len(jobs) : jobs[i].yields = "rows" => jobs[i].trigger \in Materialize
  /\ SchemaOnly(2) /\ SchemaOnly(12) /\ SchemaOnly(22) /\ SchemaOnly(34)
  /\ (Ran(2) /\ ~Ran(4)) => NoJobOn(ns.spark_df)
  /\ (Ran(12) /\ ~Ran(13)) => NoJobOn(ns.fire_df_months)
  /\ (Ran(17) /\ ~Ran(18)) => (NoJobOn(ns.no_rain) /\ NoJobOn(ns.some_rain))
  /\ (Ran(34) /\ ~Ran(35)) => NoJobOn(Filter(ns.spark_df, ColContains(Col(n_color), s_r)))

C2_Witness ==
  /\ out.cell = 12
  /\ Len(csv.rows) > 0
  /\ ns.fire_df_months.op = "groupByAvg"
  /\ out.items[1].kind = "schema"
  /\ NoJobOn(ns.fire_df_months)

\* C3: show() on a column expression (cells 31 and 33) raises TypeError, which
\* the surrounding try/except catches and prints: the step that finishes such
\* a cell records exactly one new error, a caught TypeError of that cell,
\* prints its type and message and no error output, leaves spark_df and the
\* session unchanged, and leaves the kernel idle with the next cell in source
\* order as the one to run, so that the kernel can start it.
C3_ColumnShowCaught ==
  [][\A k \in {31, 33} :
       (k \in running /\ k \notin running') =>
         /\ errors' = Append(errors, [cell |-> k, type |-> "TypeError", caught |-> TRUE])
         /\ out' = [cell |-> k,
                    items |-> <<Printed("TypeError"),
                                Printed("'Column' object is not callable")>>]
         /\ ns'.spark_df = ns.spark_df
         /\ session' = session
         /\ running' = {}
         /\ pc' = k + 1
         /\ pc' <= LastCell]_vars

C3_Witness ==
  /\ Ran(34)
  /\ \E i, j \in 1..Len(errors) :
       /\ errors[i] = [cell |-> 31, type |-> "TypeError", caught |-> TRUE]
       /\ errors[j] = [cell |-> 33, type |-> "TypeError", caught |-> TRUE]
  /\ session.active
  /\ ns.spark_df = createDataFrame(LiteralRows)

\* C4: the script has exactly one error path: every error raised in a run is
\* the TypeError of showing a column expression, and it is caught.
C4_OnlyCaughtTypeError ==
  \A i \in 1..Len(errors) :
     /\ errors[i].type = "TypeError"
     /\ errors[i].caught
     /\ errors[i].cell \in {31, 33}

\* C5: pandas_df.corr() with no arguments completes without error and returns
\* the table of correlations between the numeric columns.
C5_PandasCorrReturnsTable ==
  /\ \A i \in 1..Len(errors) : errors[i].cell # 25
  /\ out.cell = 25 => (Len(out.items) = 1 /\ out.items[1].kind = "pandas")

\* C6 as claimed: the dataset loaded from forestfires.csv has exactly twelve
\* named columns.
C6_TwelveColumns == Ran(11) => Len(ns.fire_df.schema) = 12

\* C6 as amended: the dataset loaded from forestfires.csv by the single
\* read.csv call (header row used for names) has exactly thirteen named
\* columns: X, Y, month, day, FFMC, DMC, DC, ISI, temp, RH, wind, rain, area.
C6_ThirteenColumns ==
  /\ Cardinality({i \in 1..Len(jobs) : jobs[i].trigger = "read.csv"}) <= 1
  /\ Ran(11) =>
       /\ Len(ns.fire_df.schema) = 13
       /\ Names(ns.fire_df.schema) =
            << n_X, n_Y, n_month, n_day, n_FFMC, n_DMC, n_DC, n_ISI, n_temp,
               n_RH, n_wind, n_rain, n_area >>
       /\ Cardinality({i \in 1..Len(jobs) : jobs[i].trigger = "read.csv"}) = 1
       /\ out.cell = 11 => out.items[1].schema = Names(ns.fire_df.schema)

C6_Witness ==
  /\ out.cell = 11
  /\ Len(csv.rows) > 0
  /\ Len(out.items[1].rows) = Len(csv.rows)
  /\ Len(out.items[1].schema) = 13

\* The kind of a column whatever the surface names it by.
Logical(type) ==
  CASE type = "string"             -> "text"
    [] type \in {"bigint", "long"} -> "integer"
    [] type = "boolean"            -> "boolean"
    [] OTHER                       -> "other"

ReportedSchema(item) ==
  [i \in 1..Len(item.schema) |-> <<item.schema[i][1], Logical(item.schema[i][2])>>]

FixedSchema ==
  << <<n_color, "text">>, <<n_count, "integer">>, <<n_number, "integer">>,
     <<n_valid, "boolean">> >>

\* C7: the DataFrame built by createDataFrame from the three literal rows has
\* the schema color: text, count: integer, number: integer, valid: boolean, in
\* that order, at every point after it is built, and the displays of spark_df
\* (cells 2 and 22), printSchema() (cell 3), columns (cell 9) and dtypes
\* (cell 24) all report it.
C7_SchemaFixed ==
  Ran(2) =>
    /\ [i \in 1..Len(ns.spark_df.schema) |->
          <<ns.spark_df.schema[i].name, Logical(ns.spark_df.schema[i].type)>>] = FixedSchema
    /\ out.cell \in {2, 3, 22, 24} => ReportedSchema(out.items[1]) = FixedSchema
    /\ out.cell = 9 => out.items[1].schema = <<n_color, n_count, n_number, n_valid>>

C7_Witness ==
  /\ out.cell = 24
  /\ out.items[1].kind = "dtypes"
  /\ out.items[1].schema =
       << <<n_color, "string">>, <<n_count, "bigint">>, <<n_number, "bigint">>,
          <<n_valid, "boolean">> >>

\* The rows the last cell showed are one per distinct value of column k of the
\* file: every value of the column is the key of a row, every key is a value
\* of the column, and no two rows have the same key.
OnePerKey(rows, k) ==
  /\ {rows[i][1] : i \in 1..Len(rows)} = {csv.rows[r][k] : r \in 1..Len(csv.rows)}
  /\ \A i, j \in 1..Len(rows) : rows[i][1] = rows[j][1] => i = j

\* C8: grouping by month or by day and averaging area returns exactly one row
\* per distinct value of the key column (cells 13 and 14 for month, 15 and 16
\* for day).
C8_OneRowPerKey ==
  /\ out.cell \in {13, 14} => OnePerKey(out.items[1].rows, ColIdx(ns.fire_df.schema, n_month))
  /\ out.cell \in {15, 16} => OnePerKey(out.items[1].rows, ColIdx(ns.fire_df.schema, n_day))

C8_Witness ==
  /\ out.cell = 13
  /\ Len(csv.rows) >= 2
  /\ csv.rows[1][3] = csv.rows[2][3]
  /\ csv.rows[1][13] # csv.rows[2][13]
  /\ Len(out.items[1].rows) < Len(csv.rows)

\* The rows of the three literals in the column order of spark_df.
LiteralTuples ==
  << <<StrV(s_red),   IntV(1), IntV(4), BoolV(TRUE)>>,
     <<StrV(s_blue),  IntV(2), IntV(7), BoolV(FALSE)>>,
     <<StrV(s_green), IntV(3), IntV(1), BoolV(TRUE)>> >>

\* C9: both input datasets are immutable.  No step changes spark_df once cell
\* 2 has built it, nor fire_df once cell 11 has built it, nor the file; at
\* every later point spark_df yields the three literal rows in their order
\* under its schema, and fire_df yields the rows of the file in their order.
C9_InputsImmutable ==
  /\ [][/\ Ran(2) => ns'.spark_df = ns.spark_df
        /\ Ran(11) => ns'.fire_df = ns.fire_df
        /\ csv' = csv]_vars
  /\ [](Ran(2) => (Results(ns.spark_df, csv) = {LiteralTuples} /\ ns.spark_df.schema = InferSchema(LiteralRows)))
  /\ [](Ran(11) => (Results(ns.fire_df, csv) = {csv.rows} /\ Names(ns.fire_df.schema) = csv.header))

C9_Witness ==
  /\ Ran(35)
  /\ Results(ns.spark_df, csv) = {LiteralTuples}
  /\ Len(csv.rows) > 0
  /\ Results(ns.fire_df, csv) = {csv.rows}
  /\ \E i \in 1..Len(errors) : errors[i].caught

\* C10: the script is one linear sequence of synchronous calls.  At most one
\* cell is in progress at any time; the cells that have finished are cells
\* 1..n in source order, each once; a cell in progress is cell n+1; the output
\* area holds the result of cell n; and the next cell to start is the one
\* after those.
C10_LinearSynchronous ==
  /\ Cardinality(running) <= 1
  /\ executed = [i \in 1..Len(executed) |-> i]
  /\ running \subseteq {Len(executed) + 1}
  /\ pc = Len(executed) + Cardinality(running) + 1
  /\ out.cell = Len(executed)
  /\ Len(executed) <= LastCell

C10_Witness == Finished /\ Len(executed) = LastCell /\ out.cell = LastCell

\* take(n) on df returns exactly n rows, the first n rows of collect() on df in
\* the same order, for every n from 0 to the number of rows of df.
TakeIsPrefix(df) ==
  \A all \in Results(df, csv) :
     \A n \in 0..Len(all) :
        \A got \in Results(Limit(df, n), csv) :
           /\ Len(got) = n
           /\ \A i \in 1..n : got[i] = all[i]

\* C11: for every n with 0 <= n <= the number of rows, take(n) returns exactly
\* n rows and they are the first n rows of collect() in the same order, on
\* spark_df and on fire_df for every file explored; take(2) on spark_df (cell 5)
\* returns the red and the blue row.
C11_TakeIsPrefixOfCollect ==
  /\ Ran(2) => TakeIsPrefix(ns.spark_df)
  /\ Ran(11) => TakeIsPrefix(ns.fire_df)
  /\ out.cell = 5 =>
       /\ Len(out.items[1].rows) = 2
       /\ out.items[1].rows[1] = <<StrV(s_red), IntV(1), IntV(4), BoolV(TRUE)>>
       /\ out.items[1].rows[2] = <<StrV(s_blue), IntV(2), IntV(7), BoolV(FALSE)>>

C11_Witness ==
  /\ out.cell = 5
  /\ Len(out.items[1].rows) = 2
  /\ out.items[1].rows[1][1].v = s_red
  /\ out.items[1].rows[2][1].v = s_blue
  /\ \E all \in Results(ns.spark_df, csv) : Len(all) = 3

\* The rows shown under the column names cols are the literal rows: as many,
\* in the order written, row r holding for every column the value the r-th
\* literal gives that key.
ShowsAllLiterals(cols, rows) ==
  /\ Len(rows) = Len(LiteralRows)
  /\ \A r \in 1..Len(rows) :
        /\ Len(rows[r]) = Len(LiteralRows[r])
        /\ \A i \in 1..Len(cols) :
              \E k \in 1..Len(LiteralRows[r]) :
                 /\ LiteralRows[r][k][1] = cols[i]
                 /\ LiteralRows[r][k][2] = rows[r][i]

\* C12: collect() (cell 4) and show() (cell 6) on spark_df return all of the
\* data: one row per literal row passed to createDataFrame, none missing or
\* duplicated, in the order the literals were given, each row carrying the
\* values of its literal for every column; show() cuts nothing off.
C12_CollectShowAllRows ==
  /\ out.cell \in {4, 6} => ShowsAllLiterals(out.items[1].schema, out.items[1].rows)
  /\ out.cell = 4 => out.items[1].kind = "rows"
  /\ out.cell = 6 => (out.items[1].kind = "table" /\ out.items[1].text = "")

C12_Witness ==
  /\ out.cell = 6
  /\ Len(out.items[1].rows) = 3
  /\ out.items[1].schema = <<n_color, n_count, n_number, n_valid>>
  /\ out.items[1].rows[2] = <<StrV(s_blue), IntV(2), IntV(7), BoolV(FALSE)>>

\* The sequences of one or two of the names in S.
OneOrTwo(S) == {<<a>> : a \in S} \cup {<<a, b>> : a \in S, b \in S}

\* select(cols) on df has exactly the columns cols in that order, and as many
\* rows as df in the same order, each holding the source row's value of each
\* selected column.
SelectKeeps(df, cols) ==
  /\ Names(Select(df, cols).schema) = cols
  /\ \A got \in Results(Select(df, cols), csv) :
        \E src \in Results(df, csv) :
           /\ Len(got) = Len(src)
           /\ \A r \in 1..Len(got) :
                 /\ Len(got[r]) = Len(cols)
                 /\ \A i \in 1..Len(cols) :
                       \E k \in 1..Len(df.schema) :
                          /\ df.schema[k].name = cols[i]
                          /\ got[r][i] = src[r][k]

\* C13: select(cols), given one column name or a list of names, returns a
\* DataFrame with exactly the named columns in the order requested and the
\* same number of rows in the same order as the source, each row keeping the
\* source row's value for each selected column: for every choice of one or
\* two columns of spark_df, and of month, day and area of fire_df; cells 7 and
\* 8 show number, and number and valid, of the three literal rows.
C13_SelectKeepsColumnsAndRows ==
  /\ Ran(2) => \A cols \in OneOrTwo({n_color, n_count, n_number, n_valid}) :
                  SelectKeeps(ns.spark_df, cols)
  /\ Ran(11) => \A cols \in OneOrTwo({n_month, n_day, n_area}) :
                   SelectKeeps(ns.fire_df, cols)
  /\ out.cell = 7 =>
       /\ out.items[1].schema = <<n_number>>
       /\ out.items[1].rows = <<<<IntV(4)>>, <<IntV(7)>>, <<IntV(1)>>>>
  /\ out.cell = 8 =>
       /\ out.items[1].schema = <<n_number, n_valid>>
       /\ out.items[1].rows = << <<IntV(4), BoolV(TRUE)>>, <<IntV(7), BoolV(FALSE)>>,
                                 <<IntV(1), BoolV(TRUE)>> >>

C13_Witness ==
  /\ out.cell = 8
  /\ out.items[1].schema = <<n_number, n_valid>>
  /\ Len(out.items[1].rows) = 3
  /\ out.items[1].rows[2] = <<IntV(7), BoolV(FALSE)>>

\* spark_df.filter(spark_df["color"].contains("r")) as an action returns it.
SparkMasked == Results(Filter(ns.spark_df, ColContains(Col(n_color), s_r)), csv)

\* pandas_df[pandas_df["color"].str.contains("r")]
PandasMasked == pdMask(pandas_df, pdStrContains(pdGetItem(pandas_df, n_color), s_r))

\* A Spark row and a pandas row hold the same value under every column name.
SameRow(srow, prow) ==
  /\ Len(srow) = Len(prow)
  /\ \A i \in 1..Len(srow) :
        \E k \in 1..Len(prow) :
           /\ pandas_df.columns[k] = ns.spark_df.schema[i].name
           /\ prow[k] = srow[i]

\* C14: boolean masking works in Spark as in pandas.  With the mask color
\* contains "r", spark_df.filter(mask) and pandas_df[mask] keep the same rows
\* in the same order, equal value by value under each column name: the red and
\* the green row as they were built, the blue row dropped; cells 29 and 35
\* show them.
C14_MaskingAgrees ==
  /\ (Ran(2) /\ Ran(20)) =>
       \A rows \in SparkMasked :
          /\ Len(rows) = Len(PandasMasked.rows)
          /\ \A r \in 1..Len(rows) : SameRow(rows[r], PandasMasked.rows[r])
          /\ rows = << <<StrV(s_red), IntV(1), IntV(4), BoolV(TRUE)>>,
                       <<StrV(s_green), IntV(3), IntV(1), BoolV(TRUE)>> >>
  /\ out.cell = 29 =>
       out.items[1].rows = << <<0, StrV(s_red), IntV(4), IntV(1), BoolV(TRUE)>>,
                              <<2, StrV(s_green), IntV(1), IntV(3), BoolV(TRUE)>> >>
  /\ out.cell = 35 =>
       /\ out.items[1].rows \in SparkMasked
       /\ [r \in 1..Len(out.items[1].rows) |-> out.items[1].rows[r][1].v] = <<s_red, s_green>>

C14_Witness ==
  /\ out.cell = 35
  /\ Ran(29)
  /\ Len(out.items[1].rows) = 2
  /\ Len(PandasMasked.rows) = 2
  /\ PandasMasked.index = <<0, 2>>
  /\ SameRow(out.items[1].rows[2], PandasMasked.rows[2])

\* How many times the row x occurs in rows.
Occurrences(rows, x) == Cardinality({i \in 1..Len(rows) : rows[i] = x})

\* shown holds the rows of some result of the aggregate agg, each as often.
SameRowsAs(shown, agg) ==
  \E rows \in Results(agg, csv) :
     /\ Len(rows) = Len(shown)
     /\ \A i \in 1..Len(rows) : Occurrences(shown, rows[i]) = Occurrences(rows, rows[i])

\* The averages, second column of the shown rows, never go down.
NonDecreasing(shown) ==
  \A i \in 1..Len(shown) - 1 :
     LET a == shown[i][2].v
         b == shown[i + 1][2].v
     IN  a[1] * b[2] <= b[1] * a[2]

\* C15: fire_df_months.orderBy("avg(area)").show() and the same on fire_df_day
\* print the rows of the aggregate in non-decreasing order of avg(area): every
\* row of the unordered aggregate, each as often, none added.
C15_OrderBySortsAggregate ==
  /\ out.cell = 14 =>
       /\ NonDecreasing(out.items[1].rows)
       /\ SameRowsAs(out.items[1].rows, ns.fire_df_months)
  /\ out.cell = 16 =>
       /\ NonDecreasing(out.items[1].rows)
       /\ SameRowsAs(out.items[1].rows, ns.fire_df_day)

C15_Witness ==
  /\ out.cell = 14
  /\ Len(out.items[1].rows) = 2
  /\ out.items[1].rows[1][1].v = s_dec
  /\ out.items[1].rows[1][2].v = <<0, 1>>
  /\ out.items[1].rows[2][1].v = s_aug
  /\ out.items[1].rows[2][2].v = <<1, 2>>

====
